---- MODULE Spec2Model ----
(***************************************************************************)
(* QueueCTL: a file-backed job queue.  The durable store is two JSON files *)
(* (jobs.json, dlq.json) and a lock marker (.lock).  Every process keeps   *)
(* its own in-memory copy of the two tables (Storage.jobs, Storage.dlq).   *)
(* A worker pool is one Node.js process running several async worker       *)
(* loops; command-line invocations (enqueue, dlq retry) are short-lived    *)
(* processes.  Inside one process, code between two awaits runs without    *)
(* interleaving (one event-loop thread); between processes every file      *)
(* system call is one step.                                                 *)
(***************************************************************************)
EXTENDS Integers, Sequences, FiniteSets, TLC

\* ---------------------------------------------------------------- bounds
MaxJobs == 2
NWorkers == 2
MaxTime == 3
MaxCount == 3
MaxCliRuns == 2
MaxTrail == 5
MaxAttempts == 4
MaxBase == 4
NManagers == 2

\* ---------------------------------------------------- program constants
DefaultMaxRetries == 3
BackoffBase == 2
DequeueMaxRetries == 10
LockMaxRetries == 3
StopMaxPolls == 30

JobIds == 1..MaxJobs
Workers == 1..NWorkers
Clis == {0}
Pools == {1}
Managers == 1..NManagers
Procs == Clis \cup Managers

NoId == 0
NoTime == 0 - 1
Missing == 0 - 1
NoLock == 0 - 1
NoPid == 0 - 1

\* ------------------------------------------------------------ job records
\* A job record as stored in a table (Job.toJSON).  Ids stand for id strings
\* such as "job1"; timestamps are whole seconds; error "none" is null.
NoJob ==
  [id |-> NoId, command |-> "", state |-> "", attempts |-> 0, max_retries |-> 0,
   created_at |-> NoTime, updated_at |-> NoTime, error |-> "none",
   next_retry_at |-> NoTime]

\* new Job(data): every field defaulted with JavaScript's ||, so a falsy value
\* (missing, 0, "") is replaced by the default.
Job(data, t, gid) ==
  [id |-> IF data.id = NoId THEN gid ELSE data.id,
   command |-> data.command,
   state |-> IF data.state = "" THEN "pending" ELSE data.state,
   attempts |-> IF data.attempts \in {Missing, 0} THEN 0 ELSE data.attempts,
   max_retries |-> IF data.max_retries \in {Missing, 0}
                     THEN DefaultMaxRetries ELSE data.max_retries,
   created_at |-> IF data.created_at = NoTime THEN t ELSE data.created_at,
   updated_at |-> IF data.updated_at = NoTime THEN t ELSE data.updated_at,
   error |-> IF data.error = "" THEN "none" ELSE data.error,
   next_retry_at |-> data.next_retry_at]

canRetry(job) == job.attempts < job.max_retries /\ job.state = "failed"

\* A due test that would let every failed job through.
shouldRetryAlways(job, t) == job = job

shouldRetryNow(job, t) ==
  IF job.next_retry_at = NoTime THEN TRUE ELSE t >= job.next_retry_at

RECURSIVE Pow(_, _)
Pow(b, n) == IF n = 0 THEN 1 ELSE b * Pow(b, n - 1)

\* A delay that would grow linearly.
calculateNextRetryLinear(job, base, t) == t + base * job.attempts

calculateNextRetry(job, base, t) == t + Pow(base, job.attempts)

\* ------------------------------------------------------ tables (JS Maps)
\* A table is a sequence of records in insertion order, ids unique.
Has(t, id) == \E i \in 1..Len(t) : t[i].id = id
Idx(t, id) == CHOOSE i \in 1..Len(t) : t[i].id = id
Get(t, id) == IF Has(t, id) THEN t[Idx(t, id)] ELSE NoJob
MapSet(t, r) == IF Has(t, r.id) THEN [t EXCEPT ![Idx(t, r.id)] = r] ELSE Append(t, r)
MapDelete(t, id) == SelectSeq(t, LAMBDA r : r.id # id)
getJobsByState(t, s) == SelectSeq(t, LAMBDA r : r.state = s)
Ids(t) == {t[i].id : i \in 1..Len(t)}

\* Array.prototype.sort by created_at (stable).
InsertSorted(s, r) ==
  LET k == Cardinality({i \in 1..Len(s) : s[i].created_at <= r.created_at})
  IN SubSeq(s, 1, k) \o <<r>> \o SubSeq(s, k + 1, Len(s))
RECURSIVE SortByCreated(_)
SortByCreated(s) ==
  IF s = <<>> THEN <<>>
  ELSE InsertSorted(SortByCreated(SubSeq(s, 1, Len(s) - 1)), s[Len(s)])

IdsOf(s) == [i \in 1..Len(s) |-> s[i].id]

\* A scan that would find no failed job to retry.
NothingToRetry(t, now0) == IF t = t /\ now0 = now0 THEN NoJob ELSE NoJob

\* failedJobs.find(j => canRetry && shouldRetryNow): first match in Map order.
ReadyToRetry(t, now0) ==
  LET f == SelectSeq(t, LAMBDA r : LET o == Job(r, now0, NoId)
                                   IN canRetry(o) /\ shouldRetryNow(o, now0))
  IN IF f = <<>> THEN NoJob ELSE f[1]

\* runCommand: exit code 0 or not.  "ok" always exits 0, "fail" never does,
\* "flaky" may do either.
Outcomes(command) ==
  CASE command = "ok" -> {TRUE}
    [] command = "flaky" -> {TRUE, FALSE}
    [] OTHER -> {FALSE}

Inc(n) == IF n < MaxCount THEN n + 1 ELSE n

\* ------------------------------------------------------------------ state
VARIABLES
  now,         \* wall clock, seconds
  jobsFile,    \* jobs.json
  dlqFile,     \* dlq.json
  lockFile,    \* .lock: NoLock or the pid written in it
  alive,       \* alive[p]: process p exists
  jobs,        \* jobs[p]: Storage.jobs of process p
  dlq,         \* dlq[p]: Storage.dlq of process p
  lockHandle,  \* lockHandle[p]: Storage.lockHandle
  th,          \* th[p]: where the process's synchronous code stands
  wst,         \* wst[p][w]: worker loop position: ready, exec, sleep
  wjob,        \* wjob[p][w]: the Job object executeJob holds (Worker.currentJob)
  cli,         \* cli[p]: the command line of a CLI process
  result,      \* result[p]: how the last CLI command of p ended
  execs,       \* execs[j]: times the command of job j was spawned (saturating)
  fails,       \* fails[j]: failed executions of j since created or DLQ-retried
  reqMax,      \* reqMax[j]: max_retries the caller gave when j was enqueued
  enqs,        \* enqs[j]: enqueues of id j so far (saturating)
  calc,        \* a call of calculateNextRetry: its receiver, arguments, result
  acqs,        \* acqs[p]: acquireLock calls of the getNextPendingJob call p is in
  trail,       \* trail[j]: persisted states of j since its last DLQ retry
  enqueued,    \* ids for which an enqueue has returned
  cliRuns,     \* command-line processes started so far
  pidFile,     \* workers.pid: NoPid or the pid written in it
  mgr,         \* mgr[q]: where process q stands in WorkerManager.start / stop
  shouldStop,  \* shouldStop[q][w]: Worker.shouldStop
  stopAt,      \* stopAt[q][w]: position of Worker.stop(): no, wait, done
  waitTime     \* waitTime[q][w]: seconds Worker.stop() has waited

disk == <<jobsFile, dlqFile, lockFile>>
mem == <<jobs, dlq, lockHandle>>
wrk == <<wst, wjob>>
hist == <<execs, fails, reqMax, enqs, trail, calc, acqs>>
ctl == <<pidFile, mgr, shouldStop, stopAt, waitTime>>
vars == <<now, jobsFile, dlqFile, lockFile, alive, jobs, dlq, lockHandle, th,
          wst, wjob, cli, result, execs, fails, reqMax, enqs, trail, calc, acqs, enqueued,
          cliRuns, pidFile, mgr, shouldStop, stopAt, waitTime>>

Idle ==
  [at |-> "idle", w |-> 0, ret |-> "", cands |-> <<>>, attempt |-> 0,
   tries |-> 0, phase |-> 0, kind |-> "", upd |-> NoJob, err |-> FALSE]

NoCli == [op |-> "", data |-> NoJob]

At(p, label) == th[p].at = label

SetTh(p, r) == th' = [th EXCEPT ![p] = r]
Goto(p, label) == th' = [th EXCEPT ![p].at = label]

\* ----------------------------------------------------- Storage.load / save
\* load(): jobs.json is read first, dlq.json second (two system calls).
LoadJobs(p) ==
  /\ At(p, "load_jobs")
  /\ jobs' = [jobs EXCEPT ![p] = jobsFile]
  /\ Goto(p, "load_dlq")
  /\ UNCHANGED <<now, disk, alive, dlq, lockHandle, wrk, cli, result, enqueued, cliRuns>>

LoadDlq(p) ==
  /\ At(p, "load_dlq")
  /\ dlq' = [dlq EXCEPT ![p] = dlqFile]
  /\ Goto(p, th[p].ret)
  /\ UNCHANGED <<now, disk, alive, jobs, lockHandle, wrk, cli, result, enqueued, cliRuns>>

\* load(): a read or JSON.parse throws; the catch logs the error, replaces
\* both tables by empty Maps and load() returns normally.
LoadFails(p) ==
  /\ th[p].at \in {"load_jobs", "load_dlq"}
  /\ jobs' = [jobs EXCEPT ![p] = <<>>]
  /\ dlq' = [dlq EXCEPT ![p] = <<>>]
  /\ SetTh(p, [th[p] EXCEPT !.at = th[p].ret, !.err = TRUE])
  /\ UNCHANGED <<now, disk, alive, lockHandle, wrk, cli, result, enqueued, cliRuns>>

\* save(): jobs.json is written first, dlq.json second.
SaveJobs(p) ==
  /\ At(p, "save_jobs")
  /\ jobsFile' = jobs[p]
  /\ Goto(p, "save_dlq")
  /\ UNCHANGED <<now, dlqFile, lockFile, alive, mem, wrk, cli, result, enqueued, cliRuns>>

SaveDlq(p) ==
  /\ At(p, "save_dlq")
  /\ dlqFile' = dlq[p]
  /\ Goto(p, th[p].ret)
  /\ UNCHANGED <<now, jobsFile, lockFile, alive, mem, wrk, cli, result, enqueued, cliRuns>>

\* ------------------------------------------------ Storage.getNextPendingJob
\* Worker.processNextJob calls getNextPendingJob: the first load of the loop.
StartDequeue(w, phase) ==
  [Idle EXCEPT !.at = "load_jobs", !.ret = "g_select", !.w = w, !.phase = phase]

\* A loop that would go on after a stop was asked.
LoopIgnoresStop(p, w) == alive[p]

\* Worker.start: while (this.isRunning && !this.shouldStop)
LoopGoesOn(p, w) == ~shouldStop[p][w]

BeginCycle(p, w) ==
  /\ alive[p]
  /\ LoopGoesOn(p, w)
  /\ wst[p][w] = "ready"
  /\ At(p, "idle")
  /\ SetTh(p, StartDequeue(w, 1))
  /\ UNCHANGED <<now, disk, alive, mem, wrk, cli, result, enqueued, cliRuns>>

\* A candidate list that would hold the jobs of every state.
AllJobs(t) == IdsOf(SortByCreated(t))

\* pendingJobs = getJobsByState('pending').sort(by created_at)
PendingJobs(t) == IdsOf(SortByCreated(getJobsByState(t, "pending")))

GSelect(p) ==
  /\ At(p, "g_select")
  /\ LET pend == PendingJobs(jobs[p])
     IN IF pend = <<>>
          THEN Goto(p, "g_null")
          ELSE SetTh(p, [th[p] EXCEPT !.at = "g_acquire", !.cands = pend, !.tries = 0])
  /\ UNCHANGED <<now, disk, alive, mem, wrk, cli, result, enqueued, cliRuns>>

\* An outer loop that would reload and try again without counting.
NextCandForever(t) ==
  [t EXCEPT !.cands = <<>>, !.tries = 0, !.at = "load_jobs", !.ret = "g_select"]

\* The for-of loop moves to the next pending job; after the last one the outer
\* loop sleeps and reloads, at most DequeueMaxRetries times, then returns null.
NextCand(t) ==
  IF Len(t.cands) > 1
    THEN [t EXCEPT !.cands = Tail(t.cands), !.tries = 0, !.at = "g_acquire"]
    ELSE IF t.attempt + 1 < DequeueMaxRetries
           THEN [t EXCEPT !.cands = <<>>, !.tries = 0, !.attempt = t.attempt + 1,
                          !.at = "load_jobs", !.ret = "g_select"]
           ELSE [t EXCEPT !.cands = <<>>, !.tries = 0, !.at = "g_null"]

\* acquireLockWithRetry(3, 50): one more failed acquireLock.
LockFailed(t) ==
  IF t.tries + 1 < LockMaxRetries
    THEN [t EXCEPT !.tries = t.tries + 1, !.at = "g_acquire"]
    ELSE NextCand(t)

\* acquireLock up to the decision: lockHandle, existsSync, readFileSync and
\* process.kill(pid, 0).
GAcquire(p) ==
  /\ At(p, "g_acquire")
  /\ IF lockHandle[p]
       THEN SetTh(p, [th[p] EXCEPT !.at = "load_jobs", !.ret = "g_check"])
       ELSE IF lockFile = NoLock
              THEN Goto(p, "g_lockwrite")
              ELSE IF alive[lockFile]
                     THEN SetTh(p, LockFailed(th[p]))
                     ELSE Goto(p, "g_unlink")
  /\ UNCHANGED <<now, disk, alive, mem, wrk, cli, result, enqueued, cliRuns>>

\* fs.unlinkSync(LOCK_FILE) of a stale lock; it throws when the file is gone.
GUnlink(p) ==
  /\ At(p, "g_unlink")
  /\ IF lockFile # NoLock
       THEN lockFile' = NoLock /\ Goto(p, "g_lockwrite")
       ELSE lockFile' = lockFile /\ SetTh(p, LockFailed(th[p]))
  /\ UNCHANGED <<now, jobsFile, dlqFile, alive, mem, wrk, cli, result, enqueued, cliRuns>>

\* fs.writeFileSync(LOCK_FILE, pid); lockHandle = true; then the second load.
GLockWrite(p) ==
  /\ At(p, "g_lockwrite")
  /\ lockFile' = p
  /\ lockHandle' = [lockHandle EXCEPT ![p] = TRUE]
  /\ SetTh(p, [th[p] EXCEPT !.at = "load_jobs", !.ret = "g_check"])
  /\ UNCHANGED <<now, jobsFile, dlqFile, alive, jobs, dlq, wrk, cli, result, enqueued, cliRuns>>

\* A dequeue that would leave the record pending.
MarkStillPending(cur, t) == [cur EXCEPT !.updated_at = t]

\* currentJob.state = 'processing'; currentJob.updated_at = now
MarkProcessing(cur, t) == [cur EXCEPT !.state = "processing", !.updated_at = t]

\* The double check under the lock.  A candidate that is no longer pending is
\* skipped without releasing the lock.
GCheck(p) ==
  /\ At(p, "g_check")
  /\ LET cur == Get(jobs[p], Head(th[p].cands))
     IN IF cur # NoJob /\ cur.state = "pending"
          THEN /\ jobs' = [jobs EXCEPT ![p] = MapSet(jobs[p], MarkProcessing(cur, now))]
               /\ SetTh(p, [th[p] EXCEPT !.at = "save_jobs", !.ret = "g_release"])
          ELSE /\ jobs' = jobs
               /\ SetTh(p, NextCand(th[p]))
  /\ UNCHANGED <<now, disk, alive, dlq, lockHandle, wrk, cli, result, enqueued, cliRuns>>

\* releaseLock(), then return currentJob; the caller runs
\* executeJob(Job.fromJSON(job)), which spawns the command and awaits it.
GRelease(p) ==
  /\ At(p, "g_release")
  /\ LET w == th[p].w
         cur == Get(jobs[p], Head(th[p].cands))
     IN /\ IF lockHandle[p] /\ lockFile # NoLock
             THEN lockFile' = NoLock /\ lockHandle' = [lockHandle EXCEPT ![p] = FALSE]
             ELSE UNCHANGED <<lockFile, lockHandle>>
        /\ wjob' = [wjob EXCEPT ![p][w] = Job(cur, now, NoId)]
        /\ wst' = [wst EXCEPT ![p][w] = "exec"]
        /\ SetTh(p, Idle)
  /\ UNCHANGED <<now, jobsFile, dlqFile, alive, jobs, dlq, cli, result, enqueued, cliRuns>>

\* ---------------------------------------------------- Worker.processNextJob
\* The promoted copy of a failed job.
Promoted(r, t) == [Job(r, t, NoId) EXCEPT !.state = "pending", !.updated_at = t]

\* getNextPendingJob returned null.  In the first call of the cycle the failed
\* jobs of the in-memory table are scanned; the second call just returns.
GNull(p) ==
  /\ At(p, "g_null")
  /\ LET w == th[p].w
         r == ReadyToRetry(jobs[p], now)
     IN IF th[p].phase = 1 /\ r # NoJob
          THEN /\ SetTh(p, [th[p] EXCEPT !.at = "load_jobs", !.ret = "u_apply",
                                        !.kind = "promote", !.upd = Promoted(r, now)])
               /\ wst' = wst
          ELSE /\ SetTh(p, Idle)
               /\ wst' = [wst EXCEPT ![p][w] = "sleep"]
  /\ UNCHANGED <<now, disk, alive, mem, wjob, cli, result, enqueued, cliRuns>>

\* --------------------------------------------------------- Storage.updateJob
\* After updateJob's load: if (this.jobs.has(job.id)) { set; save }.
UApply(p) ==
  /\ At(p, "u_apply")
  /\ IF Has(jobs[p], th[p].upd.id)
       THEN /\ jobs' = [jobs EXCEPT ![p] = MapSet(jobs[p], th[p].upd)]
            /\ SetTh(p, [th[p] EXCEPT !.at = "save_jobs", !.ret = "u_done"])
       ELSE /\ jobs' = jobs
            /\ Goto(p, "u_done")
  /\ UNCHANGED <<now, disk, alive, dlq, lockHandle, wrk, cli, result, enqueued, cliRuns>>

\* A worker loop that would end when its job has failed.
LoopEndsOnFailure(job) == IF job.state = "failed" THEN "stopped" ELSE "sleep"

\* Worker.start: whatever executeJob did with the job (it raises nothing),
\* the loop goes on with await this.sleep(1000).
LoopAfter(job) == "sleep"

\* The store call has returned: after a promotion getNextPendingJob is called
\* again; after an outcome report executeJob ends (finally: currentJob = null)
\* and the loop sleeps.
UDone(p) ==
  /\ At(p, "u_done")
  /\ LET w == th[p].w
     IN IF th[p].kind = "promote"
          THEN /\ SetTh(p, StartDequeue(w, 2))
               /\ UNCHANGED wrk
          ELSE /\ SetTh(p, Idle)
               /\ wst' = [wst EXCEPT ![p][w] = LoopAfter(wjob[p][w])]
               /\ wjob' = [wjob EXCEPT ![p][w] = NoJob]
  /\ UNCHANGED <<now, disk, alive, mem, cli, result, enqueued, cliRuns>>

\* A success report that would leave the record processing.
StillProcessing(job, t) == [job EXCEPT !.updated_at = t, !.error = "none"]

\* A retry limit that would allow one more attempt.
ExhaustedLate(job) == job.attempts > job.max_retries

\* -------------------------------------------------------- Worker.executeJob
\* A success that would be counted as an attempt.
CompletedCounted(job, t) ==
  [job EXCEPT !.state = "completed", !.updated_at = t, !.error = "none",
              !.attempts = job.attempts + 1]

Completed(job, t) ==
  [job EXCEPT !.state = "completed", !.updated_at = t, !.error = "none"]

\* A failure that would not be counted.
AttemptNotCounted(job, t) == [job EXCEPT !.updated_at = t]

\* job.attempts += 1
Attempted(job, t) == [job EXCEPT !.attempts = job.attempts + 1, !.updated_at = t]

\* if (job.attempts >= job.max_retries)
Exhausted(job) == job.attempts >= job.max_retries

\* the record moveToDLQ puts in the dlq table
DeadRecord(job, t) ==
  [job EXCEPT !.state = "dead", !.error = "max", !.updated_at = t]

\* the record of a failure that will be retried
FailedRecord(job, t) ==
  [job EXCEPT !.next_retry_at = calculateNextRetry(job, BackoffBase, t),
              !.state = "failed", !.error = "retry"]

Report(p, w, job) ==
  /\ wjob' = [wjob EXCEPT ![p][w] = job]
  /\ SetTh(p, [Idle EXCEPT !.at = "load_jobs", !.ret = "u_apply", !.w = w,
                          !.kind = "outcome", !.upd = job])
  /\ UNCHANGED <<jobs, dlq>>

\* The command has ended (the promise of runCommand resolves).
ExecDone(p, w) ==
  /\ alive[p]
  /\ wst[p][w] = "exec"
  /\ At(p, "idle")
  /\ \E success \in Outcomes(wjob[p][w].command) :
       LET job == wjob[p][w]
           a == Attempted(job, now)
       IN IF success
            THEN Report(p, w, Completed(job, now))
            ELSE IF Exhausted(a)
                      THEN \* moveToDLQ(job)
                           /\ dlq' = [dlq EXCEPT ![p] = MapSet(dlq[p], DeadRecord(a, now))]
                           /\ jobs' = [jobs EXCEPT ![p] = MapDelete(jobs[p], a.id)]
                           /\ wjob' = [wjob EXCEPT ![p][w] =
                                         [a EXCEPT !.state = "failed", !.error = "max"]]
                           /\ SetTh(p, [Idle EXCEPT !.at = "save_jobs", !.ret = "u_done",
                                                   !.w = w, !.kind = "outcome"])
                      ELSE Report(p, w, FailedRecord(a, now))
  /\ UNCHANGED <<now, disk, alive, lockHandle, wst, cli, result, enqueued, cliRuns>>

\* executeJob, catch (error): job.attempts += 1; updated_at; job.error =
\* error.message, on the Job object as the try block left it.
Caught(job, t) ==
  [job EXCEPT !.attempts = job.attempts + 1, !.updated_at = t, !.error = "io"]

\* The save() of the outcome report throws (writeFileSync failed on
\* jobs.json, or on dlq.json after jobs.json was written): the catch block of
\* executeJob counts an attempt and reports again, with moveToDLQ or with
\* updateJob.
OutcomeWriteFails(p) ==
  /\ alive[p]
  /\ th[p].at \in {"save_jobs", "save_dlq"}
  /\ th[p].kind = "outcome"
  /\ LET w == th[p].w
         a == Caught(wjob[p][w], now)
     IN IF Exhausted(a)
          THEN /\ dlq' = [dlq EXCEPT ![p] =
                            MapSet(dlq[p], [a EXCEPT !.state = "dead", !.updated_at = now])]
               /\ jobs' = [jobs EXCEPT ![p] = MapDelete(jobs[p], a.id)]
               /\ wjob' = [wjob EXCEPT ![p][w] = a]
               /\ SetTh(p, [Idle EXCEPT !.at = "save_jobs", !.ret = "u_done",
                                       !.w = w, !.kind = "caught"])
          ELSE LET f == [a EXCEPT !.next_retry_at = calculateNextRetry(a, BackoffBase, now),
                                  !.state = "failed"]
               IN /\ wjob' = [wjob EXCEPT ![p][w] = f]
                  /\ SetTh(p, [Idle EXCEPT !.at = "load_jobs", !.ret = "u_apply", !.w = w,
                                          !.kind = "caught", !.upd = f])
                  /\ UNCHANGED <<jobs, dlq>>
  /\ UNCHANGED <<now, disk, alive, lockHandle, wst, cli, result, enqueued, cliRuns>>

\* The save() called from the catch block throws as well: the error leaves
\* executeJob (finally: currentJob = null), Worker.start logs it and sleeps.
CaughtWriteFails(p) ==
  /\ alive[p]
  /\ th[p].at \in {"save_jobs", "save_dlq"}
  /\ th[p].kind = "caught"
  /\ wst' = [wst EXCEPT ![p][th[p].w] = "sleep"]
  /\ wjob' = [wjob EXCEPT ![p][th[p].w] = NoJob]
  /\ SetTh(p, Idle)
  /\ UNCHANGED <<now, disk, alive, mem, cli, result, enqueued, cliRuns>>

\* await this.sleep(1000) ends.
Wake(p, w) ==
  /\ alive[p]
  /\ wst[p][w] = "sleep"
  /\ wst' = [wst EXCEPT ![p][w] = "ready"]
  /\ UNCHANGED <<now, disk, alive, mem, th, wjob, cli, result, enqueued, cliRuns>>

Tick ==
  /\ now < MaxTime
  /\ now' = now + 1
  /\ UNCHANGED <<disk, alive, mem, th, wrk, cli, result, enqueued, cliRuns>>

\* ------------------------------------------------------ command-line runs
\* What a caller may pass to `enqueue` (the JSON is handed to new Job as is).
Data(id, command, state, attempts, max_retries) ==
  [id |-> id, command |-> command, state |-> state, attempts |-> attempts,
   max_retries |-> max_retries, created_at |-> NoTime, updated_at |-> NoTime,
   error |-> "", next_retry_at |-> NoTime]

EnqueueInputs ==
  {Data(i, c, "", Missing, m) : i \in JobIds, c \in {"ok", "fail"}, m \in {Missing, 1, 2}}
  \cup {Data(i, "", "", Missing, Missing) : i \in JobIds}
  \cup {Data(i, "fail", "", Missing, 0) : i \in JobIds}
  \cup {Data(i, "ok", "completed", 3, 2) : i \in JobIds}
  \cup {Data(NoId, "ok", "", Missing, Missing)}

\* generateId(): an id no job has had.
FreshIds == JobIds \ (enqueued \cup Ids(jobsFile) \cup Ids(dlqFile))

\* A command-line process starts: require('./storage') constructs the Storage,
\* whose constructor loads both tables.
CliStart(p, op, data) ==
  /\ ~alive[p]
  /\ cliRuns < MaxCliRuns
  /\ cliRuns' = cliRuns + 1
  /\ alive' = [alive EXCEPT ![p] = TRUE]
  /\ cli' = [cli EXCEPT ![p] = [op |-> op, data |-> data]]
  /\ jobs' = [jobs EXCEPT ![p] = <<>>]
  /\ dlq' = [dlq EXCEPT ![p] = <<>>]
  /\ SetTh(p, [Idle EXCEPT !.at = "load_jobs", !.ret = "c_run"])
  /\ UNCHANGED <<now, disk, lockHandle, wrk, result, enqueued>>

\* The process ends; its tables are gone with it (the next run starts from
\* new Maps), so what they held last is left as it was.
Exit(p, res) ==
  /\ alive' = [alive EXCEPT ![p] = FALSE]
  /\ cli' = [cli EXCEPT ![p] = NoCli]
  /\ result' = [result EXCEPT ![p] = res]
  /\ SetTh(p, Idle)
  /\ UNCHANGED <<jobs, dlq>>

\* save(): a writeFileSync throws; save() logs and rethrows, and the command
\* line prints the error and exits with status 1.
SaveFails(p) ==
  /\ th[p].at \in {"save_jobs", "save_dlq"}
  /\ cli[p].op # ""
  /\ Exit(p, "StorageError")
  /\ UNCHANGED <<now, disk, lockHandle, wrk, enqueued, cliRuns>>

\* A validation that would accept every job.
AnyCommand(job) == job.command = job.command

\* if (!job.command) { error; process.exit(1) }
ValidCommand(job) == job.command # ""

\* processJobData: new Job(data), the validation, storage.addJob(job).
CliEnqueue(p) ==
  /\ At(p, "c_run")
  /\ cli[p].op = "enqueue"
  /\ \E gid \in IF cli[p].data.id = NoId THEN FreshIds ELSE {NoId} :
       LET job == Job(cli[p].data, now, gid)
       IN IF ValidCommand(job)
            THEN /\ jobs' = [jobs EXCEPT ![p] = MapSet(jobs[p], job)]
                 /\ cli' = [cli EXCEPT ![p].data = job]
                 /\ SetTh(p, [th[p] EXCEPT !.at = "save_jobs", !.ret = "c_done"])
                 /\ UNCHANGED <<alive, dlq, result>>
            ELSE Exit(p, "ValidationError")
  /\ UNCHANGED <<now, disk, lockHandle, wrk, enqueued, cliRuns>>

\* A retry that would keep the attempts the job died with.
RetriedKeepAttempts(job, t) == [job EXCEPT !.state = "pending", !.updated_at = t]

\* the record retryFromDLQ puts back in the jobs table
Retried(job, t) ==
  [job EXCEPT !.state = "pending", !.attempts = 0, !.updated_at = t]

\* A lookup that would also find a job of the jobs table.
AnyLookup(p, id) == IF Has(dlq[p], id) THEN Get(dlq[p], id) ELSE Get(jobs[p], id)

\* const job = this.dlq.get(jobId)
DlqLookup(p, id) == Get(dlq[p], id)

\* storage.retryFromDLQ(jobId)
CliRetry(p) ==
  /\ At(p, "c_run")
  /\ cli[p].op = "retry"
  /\ LET job == DlqLookup(p, cli[p].data.id)
     IN IF job # NoJob
          THEN /\ dlq' = [dlq EXCEPT ![p] = MapDelete(dlq[p], job.id)]
               /\ jobs' = [jobs EXCEPT ![p] = MapSet(jobs[p], Retried(job, now))]
               /\ SetTh(p, [th[p] EXCEPT !.at = "save_jobs", !.ret = "c_done"])
               /\ UNCHANGED <<alive, cli, result>>
          ELSE Exit(p, "NotFoundError")
  /\ UNCHANGED <<now, disk, lockHandle, wrk, enqueued, cliRuns>>

\* save() has returned and the command ends.  `enqueue` prints the job;
\* `dlq retry` calls job.toJSON() on the plain object retryFromDLQ returned,
\* which throws a TypeError after the store was written.
CliDone(p) ==
  /\ At(p, "c_done")
  /\ Exit(p, IF cli[p].op = "retry" THEN "TypeError" ELSE "ok")
  /\ enqueued' = IF cli[p].op = "enqueue" THEN enqueued \cup {cli[p].data.id}
                 ELSE enqueued
  /\ UNCHANGED <<now, disk, lockHandle, wrk, cliRuns>>

\* ------------------------------------------ WorkerManager: start and stop
\* A process that runs `worker start`: mgr[q].at is the next file system
\* call of start() / isRunning() / removePid(), or running, stopping,
\* refused (start returned, the process stays on stdin), off (no process).
NoMgr == [at |-> "off", seen |-> NoPid, ret |-> ""]
RunningMgr == [NoMgr EXCEPT !.at = "running"]

NoStop == [w \in Workers |-> FALSE]
NotStopping == [w \in Workers |-> "no"]
NoWait == [w \in Workers |-> 0]

\* process.kill(pid, 0) does not throw: a process with that pid exists.
ProcessExists(pid) == pid \in Managers /\ mgr[pid].at # "off"

\* Worker.currentJob
currentJob(q, w) == wjob[q][w]

\* The event loop of q is free to run a timer or a signal handler.
Quiet(q) == q \in Procs => At(q, "idle")

SetAlive(q, b) == alive' = [p \in Procs |-> IF p = q THEN b ELSE alive[p]]

MGoto(q, label) == mgr' = [mgr EXCEPT ![q].at = label]

\* `queuectl worker start` is launched: start() calls isRunning().
Launch(q) ==
  /\ mgr[q].at = "off"
  /\ MGoto(q, "exists")
  /\ SetAlive(q, TRUE)
  /\ UNCHANGED <<now, disk, mem, th, wrk, cli, result, hist, enqueued, cliRuns,
                 pidFile, shouldStop, stopAt, waitTime>>

\* isRunning: if (fs.existsSync(this.pidFile)) ... else return false
IsRunningExists(q) ==
  /\ mgr[q].at = "exists"
  /\ MGoto(q, IF pidFile = NoPid THEN "save" ELSE "read")
  /\ UNCHANGED <<now, disk, alive, mem, th, wrk, cli, result, hist, enqueued, cliRuns,
                 pidFile, shouldStop, stopAt, waitTime>>

\* pid = parseInt(fs.readFileSync(this.pidFile)); a file that has gone
\* throws, and the outer catch returns false.
IsRunningRead(q) ==
  /\ mgr[q].at = "read"
  /\ IF pidFile = NoPid
       THEN MGoto(q, "save")
       ELSE mgr' = [mgr EXCEPT ![q].at = "probe", ![q].seen = pidFile]
  /\ UNCHANGED <<now, disk, alive, mem, th, wrk, cli, result, hist, enqueued, cliRuns,
                 pidFile, shouldStop, stopAt, waitTime>>

\* process.kill(pid, 0): return true (start prints 'Workers are already
\* running' and returns), or the pid is stale: removePid(), return false.
IsRunningProbe(q) ==
  /\ mgr[q].at = "probe"
  /\ IF ProcessExists(mgr[q].seen)
       THEN MGoto(q, "refused")
       ELSE mgr' = [mgr EXCEPT ![q].at = "rm_exists", ![q].ret = "save"]
  /\ UNCHANGED <<now, disk, alive, mem, th, wrk, cli, result, hist, enqueued, cliRuns,
                 pidFile, shouldStop, stopAt, waitTime>>

\* removePid: if (fs.existsSync(this.pidFile))
RemoveExists(q) ==
  /\ mgr[q].at = "rm_exists"
  /\ MGoto(q, IF pidFile = NoPid THEN mgr[q].ret ELSE "rm_unlink")
  /\ UNCHANGED <<now, disk, alive, mem, th, wrk, cli, result, hist, enqueued, cliRuns,
                 pidFile, shouldStop, stopAt, waitTime>>

\* removePid: fs.unlinkSync(this.pidFile); errors are ignored.
RemoveUnlink(q) ==
  /\ mgr[q].at = "rm_unlink"
  /\ pidFile' = NoPid
  /\ MGoto(q, mgr[q].ret)
  /\ UNCHANGED <<now, disk, alive, mem, th, wrk, cli, result, hist, enqueued, cliRuns,
                 shouldStop, stopAt, waitTime>>

\* savePid: fs.writeFileSync(this.pidFile, process.pid); then the workers
\* are created and started and the signal handlers installed.
SavePid(q) ==
  /\ mgr[q].at = "save"
  /\ pidFile' = q
  /\ mgr' = [mgr EXCEPT ![q] = RunningMgr]
  /\ UNCHANGED <<now, disk, alive, mem, th, wrk, cli, result, hist, enqueued, cliRuns,
                 shouldStop, stopAt, waitTime>>

\* SIGTERM or SIGINT arrives: WorkerManager.stop calls stop() of each of
\* its workers ws, and each runs up to its first await.
Signal(q, ws) ==
  /\ mgr[q].at = "running"
  /\ Quiet(q)
  /\ MGoto(q, "stopping")
  /\ shouldStop' = [shouldStop EXCEPT ![q] = [w \in Workers |-> w \in ws]]
  /\ stopAt' = [stopAt EXCEPT ![q] =
                  [w \in Workers |->
                     IF w \notin ws THEN "no"
                     ELSE IF currentJob(q, w) # NoJob /\ 0 < StopMaxPolls
                            THEN "wait" ELSE "done"]]
  /\ UNCHANGED <<now, disk, alive, mem, th, wrk, cli, result, hist, enqueued, cliRuns,
                 pidFile, waitTime>>

\* Worker.stop: await this.sleep(1000) ends; waitTime += 1000; the loop
\* goes on while (this.currentJob && waitTime < maxWaitTime).
StopPoll(q, w) ==
  /\ stopAt[q][w] = "wait"
  /\ Quiet(q)
  /\ waitTime' = [waitTime EXCEPT ![q][w] = @ + 1]
  /\ stopAt' = [stopAt EXCEPT ![q][w] =
                  IF currentJob(q, w) # NoJob /\ waitTime[q][w] + 1 < StopMaxPolls
                    THEN "wait" ELSE "done"]
  /\ UNCHANGED <<now, disk, alive, mem, th, wrk, cli, result, hist, enqueued, cliRuns,
                 pidFile, mgr, shouldStop>>

\* await Promise.all(stopPromises) resolves: this.workers = []; removePid()
Stopped(q, ws) ==
  /\ mgr[q].at = "stopping"
  /\ \A w \in ws : stopAt[q][w] = "done"
  /\ Quiet(q)
  /\ mgr' = [mgr EXCEPT ![q].at = "rm_exists", ![q].ret = "exit"]
  /\ UNCHANGED <<now, disk, alive, mem, th, wrk, cli, result, hist, enqueued, cliRuns,
                 pidFile, shouldStop, stopAt, waitTime>>

\* process.exit(0)
ProcessExit(q) ==
  /\ mgr[q].at = "exit"
  /\ mgr' = [mgr EXCEPT ![q] = NoMgr]
  /\ SetAlive(q, FALSE)
  /\ shouldStop' = [shouldStop EXCEPT ![q] = NoStop]
  /\ stopAt' = [stopAt EXCEPT ![q] = NotStopping]
  /\ waitTime' = [waitTime EXCEPT ![q] = NoWait]
  /\ UNCHANGED <<now, disk, mem, th, wrk, cli, result, hist, enqueued, cliRuns, pidFile>>

\* The process is killed (SIGKILL) or crashes, at any point of its run: no
\* handler runs, its memory is gone, the files stay as they are.
Killed(q) ==
  /\ mgr[q].at # "off"
  /\ mgr' = [mgr EXCEPT ![q] = NoMgr]
  /\ SetAlive(q, FALSE)
  /\ shouldStop' = [shouldStop EXCEPT ![q] = NoStop]
  /\ stopAt' = [stopAt EXCEPT ![q] = NotStopping]
  /\ waitTime' = [waitTime EXCEPT ![q] = NoWait]
  /\ th' = [th EXCEPT ![q] = Idle]
  /\ jobs' = [jobs EXCEPT ![q] = <<>>]
  /\ dlq' = [dlq EXCEPT ![q] = <<>>]
  /\ lockHandle' = [lockHandle EXCEPT ![q] = FALSE]
  /\ wst' = [wst EXCEPT ![q] = [w \in Workers |-> "ready"]]
  /\ wjob' = [wjob EXCEPT ![q] = [w \in Workers |-> NoJob]]
  /\ UNCHANGED <<now, disk, cli, result, hist, enqueued, cliRuns, pidFile>>

\* ------------------------------------------------------------------- Init
\* No synchronous run under way, no command line started, nothing observed.
InitIdle ==
  /\ lockFile = NoLock
  /\ lockHandle = [p \in Procs |-> FALSE]
  /\ th = [p \in Procs |-> Idle]
  /\ wst = [p \in Managers |-> [w \in Workers |-> "ready"]]
  /\ wjob = [p \in Managers |-> [w \in Workers |-> NoJob]]
  /\ cli = [p \in Procs |-> NoCli]
  /\ result = [p \in Procs |-> ""]
  /\ execs = [j \in JobIds |-> 0]
  /\ fails = [j \in JobIds |-> 0]
  /\ reqMax = [j \in JobIds |-> Missing]
  /\ enqs = [j \in JobIds |-> 0]
  /\ trail = [j \in JobIds |-> <<>>]
  /\ acqs = [p \in Procs |-> 0]
  /\ cliRuns = 0

InitCommon ==
  /\ InitIdle
  /\ now = 0
  /\ alive = [p \in Procs |-> p \in Pools]

\* The pool process has started: its pid is in workers.pid, no stop asked.
PoolStarted ==
  /\ pidFile \in Pools
  /\ mgr = [q \in Managers |-> IF q \in Pools THEN RunningMgr ELSE NoMgr]
  /\ shouldStop = [q \in Managers |-> NoStop]
  /\ stopAt = [q \in Managers |-> NotStopping]
  /\ waitTime = [q \in Managers |-> NoWait]

\* No call of calculateNextRetry is looked at.
NoCalc == [job |-> NoJob, arg |-> NoJob, base |-> 0, t |-> 0, out |-> NoTime, done |-> TRUE]

\* An empty data directory and a running pool.
Init ==
  /\ InitCommon
  /\ calc = NoCalc
  /\ PoolStarted
  /\ jobsFile = <<>>
  /\ dlqFile = <<>>
  /\ jobs = [p \in Procs |-> <<>>]
  /\ dlq = [p \in Procs |-> <<>>]
  /\ enqueued = {}

\* ------------------------------------------------------ history variables
\* execs, fails, reqMax, enqs and trail record what a step did; no action
\* reads them.
\* The persisted state of job j: its state in jobs.json, else in dlq.json.
PState(j) ==
  IF Has(jobsFile, j) THEN Get(jobsFile, j).state
  ELSE IF Has(dlqFile, j) THEN Get(dlqFile, j).state ELSE "none"

Spawned(j) ==
  \E p \in Managers, w \in Workers :
    wst[p][w] # "exec" /\ wst'[p][w] = "exec" /\ wjob'[p][w].id = j

FailedRun(j) ==
  \E p \in Managers, w \in Workers :
    /\ wst[p][w] = "exec" /\ wjob[p][w].id = j
    /\ At(p, "idle") /\ th'[p].at # "idle" /\ th'[p].w = w
    /\ wjob'[p][w].attempts = wjob[p][w].attempts + 1

Created(j) ==
  \E p \in Clis :
    At(p, "c_run") /\ th'[p].at = "save_jobs" /\ cli[p].op = "enqueue"
    /\ cli'[p].data.id = j

Revived(j) ==
  \E p \in Clis :
    At(p, "c_run") /\ th'[p].at = "save_jobs" /\ cli[p].op = "retry"
    /\ cli[p].data.id = j

RequestedMax(j) ==
  LET p == CHOOSE q \in Clis : At(q, "c_run") IN cli[p].data.max_retries

ObserveRuns ==
  /\ execs' = [j \in JobIds |->
                 IF Created(j) THEN 0
                 ELSE IF Spawned(j) THEN Inc(execs[j]) ELSE execs[j]]
  /\ fails' = [j \in JobIds |->
                 IF Created(j) \/ Revived(j) THEN 0
                 ELSE IF FailedRun(j) THEN Inc(fails[j]) ELSE fails[j]]

\* The states of j a reader of the files has seen since retryFromDLQ(j); a
\* retry starts a new trail unless the job has not run since the last one.
ObserveTrail ==
  trail' = [j \in JobIds |->
              IF Revived(j) /\ (trail[j] = <<>> \/ fails[j] > 0) THEN <<"dead">>
              ELSE IF trail[j] = <<>> \/ Len(trail[j]) >= MaxTrail THEN trail[j]
              ELSE IF PState(j)' \in {"none", trail[j][Len(trail[j])]} THEN trail[j]
              ELSE Append(trail[j], PState(j)')]

\* A call of getNextPendingJob starts; a call of acquireLock is made.
CallStarted(p) ==
  th[p].at \in {"idle", "u_done"} /\ th'[p] = StartDequeue(th'[p].w, th'[p].phase)
AcquireCalled(p) == At(p, "g_acquire") /\ th'[p] # th[p] /\ alive'[p]

\* The most acquireLock calls one getNextPendingJob call can make.
AcquireBound == DequeueMaxRetries * LockMaxRetries * MaxJobs

ObserveLock ==
  acqs' = [p \in Procs |->
             IF CallStarted(p) \/ th'[p].at = "idle" THEN 0
             ELSE IF AcquireCalled(p) /\ acqs[p] <= AcquireBound THEN acqs[p] + 1
             ELSE acqs[p]]

ObserveRequests ==
  /\ reqMax' = [j \in JobIds |-> IF Created(j) THEN RequestedMax(j) ELSE reqMax[j]]
  /\ enqs' = [j \in JobIds |-> IF Created(j) THEN Inc(enqs[j]) ELSE enqs[j]]

\* ------------------------------------------- a pool and command-line runs
\* One pool process and command-line processes, every file system call a
\* step; the clock stands still.
HistNext == ObserveRequests /\ UNCHANGED <<execs, fails, trail, calc, acqs, ctl>>

Next ==
  \/ \E p \in Pools, w \in Workers : BeginCycle(p, w) /\ HistNext
  \/ \E p \in Pools, w \in Workers : ExecDone(p, w) /\ HistNext
  \/ \E p \in Pools, w \in Workers : Wake(p, w) /\ HistNext
  \/ \E p \in Pools : GSelect(p) /\ HistNext
  \/ \E p \in Pools : GAcquire(p) /\ HistNext
  \/ \E p \in Pools : GLockWrite(p) /\ HistNext
  \/ \E p \in Pools : GCheck(p) /\ HistNext
  \/ \E p \in Pools : GRelease(p) /\ HistNext
  \/ \E p \in Pools : GNull(p) /\ HistNext
  \/ \E p \in Pools : UApply(p) /\ HistNext
  \/ \E p \in Pools : UDone(p) /\ HistNext
  \/ \E p \in Procs : LoadJobs(p) /\ HistNext
  \/ \E p \in Procs : LoadDlq(p) /\ HistNext
  \/ \E p \in Procs : SaveJobs(p) /\ HistNext
  \/ \E p \in Procs : SaveDlq(p) /\ HistNext
  \/ \E p \in Clis, d \in EnqueueInputs : CliStart(p, "enqueue", d) /\ HistNext
  \/ \E p \in Clis, j \in JobIds : CliStart(p, "retry", [NoJob EXCEPT !.id = j]) /\ HistNext
  \/ \E p \in Clis : CliEnqueue(p) /\ HistNext
  \/ \E p \in Clis : CliRetry(p) /\ HistNext
  \/ \E p \in Clis : CliDone(p) /\ HistNext

Spec == Init /\ [][Next]_vars

\* ------------------------------------------------- a pool working alone
\* The store after some enqueues have returned, every job pending and never
\* run, and after that one pool process and no other process.
Enqueued(i, c, m) == Job(Data(i, c, "", Missing, m), 0, NoId)

InitialTables ==
  UNION {[1..n -> {Enqueued(i, c, m) : i \in 1..n, c \in {"ok", "fail", "flaky"},
                                       m \in 1..DefaultMaxRetries}]
         : n \in 1..MaxJobs}

InitPool ==
  /\ InitCommon
  /\ calc = NoCalc
  /\ PoolStarted
  /\ jobsFile \in {t \in InitialTables : \A i \in 1..Len(t) : t[i].id = i}
  /\ dlqFile = <<>>
  /\ jobs = [p \in Procs |-> IF p \in Pools THEN jobsFile ELSE <<>>]
  /\ dlq = [p \in Procs |-> <<>>]
  /\ enqueued = Ids(jobsFile)

HistPool == ObserveRuns /\ UNCHANGED <<reqMax, enqs, trail, calc, acqs, ctl>>

NextPool ==
  \/ Tick /\ HistPool
  \/ \E p \in Pools, w \in Workers : BeginCycle(p, w) /\ HistPool
  \/ \E p \in Pools, w \in Workers : ExecDone(p, w) /\ HistPool
  \/ \E p \in Pools, w \in Workers : Wake(p, w) /\ HistPool
  \/ \E p \in Pools : GSelect(p) /\ HistPool
  \/ \E p \in Pools : GAcquire(p) /\ HistPool
  \/ \E p \in Pools : GLockWrite(p) /\ HistPool
  \/ \E p \in Pools : GCheck(p) /\ HistPool
  \/ \E p \in Pools : GRelease(p) /\ HistPool
  \/ \E p \in Pools : GNull(p) /\ HistPool
  \/ \E p \in Pools : UApply(p) /\ HistPool
  \/ \E p \in Pools : UDone(p) /\ HistPool
  \/ \E p \in Pools : LoadJobs(p) /\ HistPool
  \/ \E p \in Pools : LoadDlq(p) /\ HistPool
  \/ \E p \in Pools : SaveJobs(p) /\ HistPool
  \/ \E p \in Pools : SaveDlq(p) /\ HistPool

SpecPool == InitPool /\ [][NextPool]_vars

\* The same pool, every job an always-succeeding command.
InitLive ==
  /\ InitPool
  /\ \A i \in 1..Len(jobsFile) : jobsFile[i].command = "ok"

\* Scheduling of the pool process.  A synchronous run of the process goes
\* on until it returns to the event loop (weak fairness of its steps); a
\* timer that has ended and a child process that has exited have their
\* callbacks run by the event loop once the current run returns, however
\* often other callbacks run in between (strong fairness).
Fairness ==
  /\ \A p \in Pools, w \in Workers :
       /\ SF_vars(BeginCycle(p, w) /\ HistPool)
       /\ SF_vars(ExecDone(p, w) /\ HistPool)
       /\ WF_vars(Wake(p, w) /\ HistPool)
  /\ \A p \in Pools :
       /\ WF_vars(GSelect(p) /\ HistPool)
       /\ WF_vars(GAcquire(p) /\ HistPool)
       /\ WF_vars(GLockWrite(p) /\ HistPool)
       /\ WF_vars(GCheck(p) /\ HistPool)
       /\ WF_vars(GRelease(p) /\ HistPool)
       /\ WF_vars(GNull(p) /\ HistPool)
       /\ WF_vars(UApply(p) /\ HistPool)
       /\ WF_vars(UDone(p) /\ HistPool)
       /\ WF_vars(LoadJobs(p) /\ HistPool)
       /\ WF_vars(LoadDlq(p) /\ HistPool)
       /\ WF_vars(SaveJobs(p) /\ HistPool)
       /\ WF_vars(SaveDlq(p) /\ HistPool)

LiveSpec == InitLive /\ [][NextPool]_vars /\ Fairness

\* ------------------------------------------- a pool and `dlq retry` runs
\* The store after jobs have died: every job is either dead in dlq.json, as
\* moveToDLQ left it after max_retries failures, or pending and never run;
\* then a pool started with the default count of one worker, and `dlq retry`
\* commands; the clock stands still.
Died(i, c, m) ==
  [Enqueued(i, c, m) EXCEPT !.state = "dead", !.attempts = m, !.error = "max",
                            !.next_retry_at = IF m = 1 THEN NoTime ELSE 0]

DeadOrPending ==
  {Died(i, "flaky", m) : i \in JobIds, m \in 1..2}
  \cup {Enqueued(i, "ok", DefaultMaxRetries) : i \in JobIds}

\* .option('-c, --count <number>', ..., '1')
DefaultCount == 1

InitRetry ==
  /\ InitCommon
  /\ calc = NoCalc
  /\ PoolStarted
  /\ \E n \in 1..MaxJobs :
       \E t \in [1..n -> DeadOrPending] :
         /\ \A i \in 1..n : t[i].id = i
         /\ \E i \in 1..n : t[i].state = "dead"
         /\ jobsFile = SelectSeq(t, LAMBDA r : r.state # "dead")
         /\ dlqFile = SelectSeq(t, LAMBDA r : r.state = "dead")
  /\ jobs = [p \in Procs |-> IF p \in Pools THEN jobsFile ELSE <<>>]
  /\ dlq = [p \in Procs |-> IF p \in Pools THEN dlqFile ELSE <<>>]
  /\ enqueued = Ids(jobsFile) \cup Ids(dlqFile)

HistRetry == ObserveRuns /\ ObserveTrail /\ UNCHANGED <<reqMax, enqs, calc, acqs, ctl>>

NextRetry ==
  \/ \E p \in Pools, w \in 1..DefaultCount : BeginCycle(p, w) /\ HistRetry
  \/ \E p \in Pools, w \in 1..DefaultCount : ExecDone(p, w) /\ HistRetry
  \/ \E p \in Pools, w \in 1..DefaultCount : Wake(p, w) /\ HistRetry
  \/ \E p \in Pools : GSelect(p) /\ HistRetry
  \/ \E p \in Pools : GAcquire(p) /\ HistRetry
  \/ \E p \in Pools : GLockWrite(p) /\ HistRetry
  \/ \E p \in Pools : GCheck(p) /\ HistRetry
  \/ \E p \in Pools : GRelease(p) /\ HistRetry
  \/ \E p \in Pools : GNull(p) /\ HistRetry
  \/ \E p \in Pools : UApply(p) /\ HistRetry
  \/ \E p \in Pools : UDone(p) /\ HistRetry
  \/ \E p \in Procs : LoadJobs(p) /\ HistRetry
  \/ \E p \in Procs : LoadDlq(p) /\ HistRetry
  \/ \E p \in Procs : SaveJobs(p) /\ HistRetry
  \/ \E p \in Procs : SaveDlq(p) /\ HistRetry
  \/ \E p \in Clis, j \in JobIds : CliStart(p, "retry", [NoJob EXCEPT !.id = j]) /\ HistRetry
  \/ \E p \in Clis : CliRetry(p) /\ HistRetry
  \/ \E p \in Clis : CliDone(p) /\ HistRetry

SpecRetry == InitRetry /\ [][NextRetry]_vars

\* --------------------------------------------- Job.calculateNextRetry alone
\* job.calculateNextRetry(base) called at time t on a record with any
\* attempts; the method assigns no field of the record.
CalcInputs ==
  {[job |-> r, arg |-> r, base |-> b, t |-> t0, out |-> NoTime, done |-> FALSE] :
     r \in {[Enqueued(1, "fail", DefaultMaxRetries) EXCEPT !.attempts = a] :
               a \in 0..MaxAttempts},
     b \in 1..MaxBase, t0 \in 0..MaxTime}

InitCalc ==
  /\ InitCommon
  /\ PoolStarted
  /\ calc \in CalcInputs
  /\ jobsFile = <<>>
  /\ dlqFile = <<>>
  /\ jobs = [p \in Procs |-> <<>>]
  /\ dlq = [p \in Procs |-> <<>>]
  /\ enqueued = {}

Calc ==
  /\ ~calc.done
  /\ calc' = [calc EXCEPT !.out = calculateNextRetry(calc.job, calc.base, calc.t),
                          !.done = TRUE]
  /\ UNCHANGED <<now, disk, alive, mem, th, wrk, cli, result, execs, fails, reqMax,
                 enqs, trail, acqs, enqueued, cliRuns, ctl>>

NextCalc == Calc

SpecCalc == InitCalc /\ [][NextCalc]_vars

\* ------------------------------------------------- a pool that is stopped
\* The pool of `worker start` (one worker, the default count) works a queue
\* of pending jobs; a stop signal may arrive at any moment; a command may
\* run for any length of time; the clock of the store stands still.
InitStop == InitPool

NextStop ==
  \/ \E p \in Pools, w \in 1..DefaultCount : BeginCycle(p, w) /\ HistPool
  \/ \E p \in Pools, w \in 1..DefaultCount : ExecDone(p, w) /\ HistPool
  \/ \E p \in Pools, w \in 1..DefaultCount : Wake(p, w) /\ HistPool
  \/ \E p \in Pools : GSelect(p) /\ HistPool
  \/ \E p \in Pools : GAcquire(p) /\ HistPool
  \/ \E p \in Pools : GLockWrite(p) /\ HistPool
  \/ \E p \in Pools : GCheck(p) /\ HistPool
  \/ \E p \in Pools : GRelease(p) /\ HistPool
  \/ \E p \in Pools : GNull(p) /\ HistPool
  \/ \E p \in Pools : UApply(p) /\ HistPool
  \/ \E p \in Pools : UDone(p) /\ HistPool
  \/ \E p \in Pools : LoadJobs(p) /\ HistPool
  \/ \E p \in Pools : LoadDlq(p) /\ HistPool
  \/ \E p \in Pools : SaveJobs(p) /\ HistPool
  \/ \E p \in Pools : SaveDlq(p) /\ HistPool
  \/ \E p \in Pools : Signal(p, 1..DefaultCount)
  \/ \E p \in Pools, w \in 1..DefaultCount : StopPoll(p, w)
  \/ \E p \in Pools : Stopped(p, 1..DefaultCount)
  \/ \E p \in Pools : RemoveExists(p)
  \/ \E p \in Pools : RemoveUnlink(p)
  \/ \E p \in Pools : ProcessExit(p)

SpecStop == InitStop /\ [][NextStop]_vars

\* The same pool under the scheduling of the event loop.  A command may
\* never exit and a signal may never come (no fairness for either); a
\* synchronous run goes on until it returns, and timers that have ended
\* have their callbacks run.
FairnessStop ==
  /\ \A p \in Pools, w \in 1..DefaultCount :
       /\ SF_vars(BeginCycle(p, w) /\ HistPool)
       /\ WF_vars(Wake(p, w) /\ HistPool)
       /\ WF_vars(StopPoll(p, w))
  /\ \A p \in Pools :
       /\ WF_vars(GSelect(p) /\ HistPool)
       /\ WF_vars(GAcquire(p) /\ HistPool)
       /\ WF_vars(GLockWrite(p) /\ HistPool)
       /\ WF_vars(GCheck(p) /\ HistPool)
       /\ WF_vars(GRelease(p) /\ HistPool)
       /\ WF_vars(GNull(p) /\ HistPool)
       /\ WF_vars(UApply(p) /\ HistPool)
       /\ WF_vars(UDone(p) /\ HistPool)
       /\ WF_vars(LoadJobs(p) /\ HistPool)
       /\ WF_vars(LoadDlq(p) /\ HistPool)
       /\ WF_vars(SaveJobs(p) /\ HistPool)
       /\ WF_vars(SaveDlq(p) /\ HistPool)
       /\ WF_vars(Stopped(p, 1..DefaultCount))
       /\ WF_vars(RemoveExists(p))
       /\ WF_vars(RemoveUnlink(p))
       /\ WF_vars(ProcessExit(p))

LiveStop == InitStop /\ [][NextStop]_vars /\ FairnessStop

\* ------------------------------------------- processes that start a pool
\* `worker start` is run by several processes over one data directory with
\* an empty queue; a running pool may be stopped by a signal or killed.
InitStart ==
  /\ InitIdle
  /\ now = 0
  /\ alive = [p \in Procs |-> FALSE]
  /\ calc = NoCalc
  /\ jobsFile = <<>>
  /\ dlqFile = <<>>
  /\ jobs = [p \in Procs |-> <<>>]
  /\ dlq = [p \in Procs |-> <<>>]
  /\ enqueued = {}
  /\ pidFile = NoPid
  /\ mgr = [q \in Managers |-> NoMgr]
  /\ shouldStop = [q \in Managers |-> NoStop]
  /\ stopAt = [q \in Managers |-> NotStopping]
  /\ waitTime = [q \in Managers |-> NoWait]

NextStart ==
  \/ \E q \in Managers : Launch(q)
  \/ \E q \in Managers : IsRunningExists(q)
  \/ \E q \in Managers : IsRunningRead(q)
  \/ \E q \in Managers : IsRunningProbe(q)
  \/ \E q \in Managers : RemoveExists(q)
  \/ \E q \in Managers : RemoveUnlink(q)
  \/ \E q \in Managers : SavePid(q)
  \/ \E q \in Managers : Signal(q, 1..DefaultCount)
  \/ \E q \in Managers : Stopped(q, 1..DefaultCount)
  \/ \E q \in Managers : ProcessExit(q)
  \/ \E q \in Managers : Killed(q)

SpecStart == InitStart /\ [][NextStart]_vars

\* -------------------------------------------- two pools on one directory
\* Two `worker start` processes have both started (each with the default
\* count of one worker) over a queue of pending jobs enqueued at different
\* times; either may be killed at any point; the clock stands still.
EnqueuedAt(i, c, t) ==
  [Enqueued(i, c, DefaultMaxRetries) EXCEPT !.created_at = t, !.updated_at = t]

PeerTables ==
  {[i \in 1..n |-> EnqueuedAt(i, "ok", IF i = 1 THEN 0 ELSE 1)] : n \in 1..MaxJobs}

InitPeers ==
  /\ InitIdle
  /\ now = 1
  /\ alive = [p \in Procs |-> p \in Managers]
  /\ calc = NoCalc
  /\ jobsFile \in PeerTables
  /\ dlqFile = <<>>
  /\ jobs = [p \in Procs |-> IF p \in Managers THEN jobsFile ELSE <<>>]
  /\ dlq = [p \in Procs |-> <<>>]
  /\ enqueued = Ids(jobsFile)
  /\ pidFile = NManagers
  /\ mgr = [q \in Managers |-> RunningMgr]
  /\ shouldStop = [q \in Managers |-> NoStop]
  /\ stopAt = [q \in Managers |-> NotStopping]
  /\ waitTime = [q \in Managers |-> NoWait]

HistPeers == ObserveLock /\ UNCHANGED <<execs, fails, reqMax, enqs, trail, calc, ctl>>

NextPeers ==
  \/ \E p \in Managers, w \in 1..DefaultCount : BeginCycle(p, w) /\ HistPeers
  \/ \E p \in Managers, w \in 1..DefaultCount : ExecDone(p, w) /\ HistPeers
  \/ \E p \in Managers, w \in 1..DefaultCount : Wake(p, w) /\ HistPeers
  \/ \E p \in Managers : GSelect(p) /\ HistPeers
  \/ \E p \in Managers : GAcquire(p) /\ HistPeers
  \/ \E p \in Managers : GUnlink(p) /\ HistPeers
  \/ \E p \in Managers : GLockWrite(p) /\ HistPeers
  \/ \E p \in Managers : GCheck(p) /\ HistPeers
  \/ \E p \in Managers : GRelease(p) /\ HistPeers
  \/ \E p \in Managers : GNull(p) /\ HistPeers
  \/ \E p \in Managers : UApply(p) /\ HistPeers
  \/ \E p \in Managers : UDone(p) /\ HistPeers
  \/ \E p \in Managers : LoadJobs(p) /\ HistPeers
  \/ \E p \in Managers : LoadDlq(p) /\ HistPeers
  \/ \E p \in Managers : SaveJobs(p) /\ HistPeers
  \/ \E p \in Managers : SaveDlq(p) /\ HistPeers
  \/ \E q \in Managers : Killed(q)

SpecPeers == InitPeers /\ [][NextPeers]_vars

\* ------------------------------------------ one worker and failing jobs
\* The pool of `worker start` with its default count of one worker, working
\* alone on jobs of which some fail, under the scheduling of the event loop.
NextOne ==
  \/ Tick /\ HistPool
  \/ \E p \in Pools, w \in 1..DefaultCount : BeginCycle(p, w) /\ HistPool
  \/ \E p \in Pools, w \in 1..DefaultCount : ExecDone(p, w) /\ HistPool
  \/ \E p \in Pools, w \in 1..DefaultCount : Wake(p, w) /\ HistPool
  \/ \E p \in Pools : GSelect(p) /\ HistPool
  \/ \E p \in Pools : GAcquire(p) /\ HistPool
  \/ \E p \in Pools : GLockWrite(p) /\ HistPool
  \/ \E p \in Pools : GCheck(p) /\ HistPool
  \/ \E p \in Pools : GRelease(p) /\ HistPool
  \/ \E p \in Pools : GNull(p) /\ HistPool
  \/ \E p \in Pools : UApply(p) /\ HistPool
  \/ \E p \in Pools : UDone(p) /\ HistPool
  \/ \E p \in Pools : LoadJobs(p) /\ HistPool
  \/ \E p \in Pools : LoadDlq(p) /\ HistPool
  \/ \E p \in Pools : SaveJobs(p) /\ HistPool
  \/ \E p \in Pools : SaveDlq(p) /\ HistPool

FairnessOne ==
  /\ \A p \in Pools, w \in 1..DefaultCount :
       /\ SF_vars(BeginCycle(p, w) /\ HistPool)
       /\ SF_vars(ExecDone(p, w) /\ HistPool)
       /\ WF_vars(Wake(p, w) /\ HistPool)
  /\ \A p \in Pools :
       /\ WF_vars(GSelect(p) /\ HistPool)
       /\ WF_vars(GAcquire(p) /\ HistPool)
       /\ WF_vars(GLockWrite(p) /\ HistPool)
       /\ WF_vars(GCheck(p) /\ HistPool)
       /\ WF_vars(GRelease(p) /\ HistPool)
       /\ WF_vars(GNull(p) /\ HistPool)
       /\ WF_vars(UApply(p) /\ HistPool)
       /\ WF_vars(UDone(p) /\ HistPool)
       /\ WF_vars(LoadJobs(p) /\ HistPool)
       /\ WF_vars(LoadDlq(p) /\ HistPool)
       /\ WF_vars(SaveJobs(p) /\ HistPool)
       /\ WF_vars(SaveDlq(p) /\ HistPool)

LiveOne == InitPool /\ [][NextOne]_vars /\ FairnessOne

\* The same pool while time goes by: the clock does not stop before the
\* horizon MaxTime.
FairnessClock == FairnessOne /\ WF_vars(Tick /\ HistPool)

\* Jobs that allow at most one retry: its backoff, BackoffBase seconds, can
\* end within the horizon.
InitBackoff ==
  /\ InitPool
  /\ \A i \in 1..Len(jobsFile) : jobsFile[i].max_retries < DefaultMaxRetries

LiveRetry == InitBackoff /\ [][NextOne]_vars /\ FairnessClock

\* -------------------------------------- command-line runs and I/O errors
\* Jobs have been enqueued and no pool runs; `enqueue` and `dlq retry` are
\* run one after the other, and any read or write of a table may fail.
InitIO ==
  /\ InitIdle
  /\ now = 0
  /\ alive = [p \in Procs |-> FALSE]
  /\ calc = NoCalc
  /\ jobsFile \in {t \in InitialTables :
                     \A i \in 1..Len(t) : t[i].id = i /\ t[i].command = "ok"}
  /\ dlqFile = <<>>
  /\ jobs = [p \in Procs |-> <<>>]
  /\ dlq = [p \in Procs |-> <<>>]
  /\ enqueued = Ids(jobsFile)
  /\ pidFile = NoPid
  /\ mgr = [q \in Managers |-> NoMgr]
  /\ shouldStop = [q \in Managers |-> NoStop]
  /\ stopAt = [q \in Managers |-> NotStopping]
  /\ waitTime = [q \in Managers |-> NoWait]

NextIO ==
  \/ \E p \in Clis, d \in EnqueueInputs : CliStart(p, "enqueue", d) /\ HistNext
  \/ \E p \in Clis, j \in JobIds : CliStart(p, "retry", [NoJob EXCEPT !.id = j]) /\ HistNext
  \/ \E p \in Clis : LoadJobs(p) /\ HistNext
  \/ \E p \in Clis : LoadDlq(p) /\ HistNext
  \/ \E p \in Clis : LoadFails(p) /\ HistNext
  \/ \E p \in Clis : CliEnqueue(p) /\ HistNext
  \/ \E p \in Clis : CliRetry(p) /\ HistNext
  \/ \E p \in Clis : SaveJobs(p) /\ HistNext
  \/ \E p \in Clis : SaveDlq(p) /\ HistNext
  \/ \E p \in Clis : SaveFails(p) /\ HistNext
  \/ \E p \in Clis : CliDone(p) /\ HistNext

SpecIO == InitIO /\ [][NextIO]_vars

\* ------------------------------------ a pool whose outcome writes may fail
\* The pool of `worker start` (one worker) works a queue of pending jobs;
\* any write of a table made to record an outcome may fail; the clock
\* stands still.
NextFault ==
  \/ \E p \in Pools, w \in 1..DefaultCount : BeginCycle(p, w) /\ HistPool
  \/ \E p \in Pools, w \in 1..DefaultCount : ExecDone(p, w) /\ HistPool
  \/ \E p \in Pools, w \in 1..DefaultCount : Wake(p, w) /\ HistPool
  \/ \E p \in Pools : GSelect(p) /\ HistPool
  \/ \E p \in Pools : GAcquire(p) /\ HistPool
  \/ \E p \in Pools : GLockWrite(p) /\ HistPool
  \/ \E p \in Pools : GCheck(p) /\ HistPool
  \/ \E p \in Pools : GRelease(p) /\ HistPool
  \/ \E p \in Pools : GNull(p) /\ HistPool
  \/ \E p \in Pools : UApply(p) /\ HistPool
  \/ \E p \in Pools : UDone(p) /\ HistPool
  \/ \E p \in Pools : LoadJobs(p) /\ HistPool
  \/ \E p \in Pools : LoadDlq(p) /\ HistPool
  \/ \E p \in Pools : SaveJobs(p) /\ HistPool
  \/ \E p \in Pools : SaveDlq(p) /\ HistPool
  \/ \E p \in Pools : OutcomeWriteFails(p) /\ HistPool
  \/ \E p \in Pools : CaughtWriteFails(p) /\ HistPool

SpecFault == InitPool /\ [][NextFault]_vars

\* ================================================================ claims
Holders(j) == {pw \in Managers \X Workers : wjob[pw[1]][pw[2]].id = j}
Held(j) == Holders(j) # {}

\* C1: a job handed out by getNextPendingJob is held by at most one caller
\* until its outcome is reported, whatever the other store operations do
\* (stated for ids enqueued once, so that the two callers hold the same job).
C1_ExclusiveDequeue ==
  \A j \in JobIds : enqs[j] <= 1 => Cardinality(Holders(j)) <= 1

\* C3: on disk, every enqueued job id is in exactly one of the two tables.
C3_ExactlyOneTable ==
  \A j \in enqueued : Has(jobsFile, j) # Has(dlqFile, j)

\* C4: every change of a job's persisted state is an edge of the state
\* machine (stated for ids enqueued once; a record that is in neither file
\* for a moment constrains nothing).
Edges ==
  {<<"pending", "processing">>, <<"processing", "completed">>,
   <<"processing", "failed">>, <<"processing", "dead">>,
   <<"failed", "pending">>, <<"dead", "pending">>}

EdgeOk(a, b) == a = b \/ a = "none" \/ b = "none" \/ <<a, b>> \in Edges

C4_StateMachine ==
  [][\A j \in JobIds : enqs'[j] <= 1 => EdgeOk(PState(j), PState(j)')]_vars

\* C5: a job enqueued with max_retries 0 (once) is never recorded as failed:
\* its first failed execution sends it to the dead letter table.
C5_ZeroRetriesNeverFailed ==
  \A j \in JobIds :
    (reqMax[j] = 0 /\ enqs[j] = 1 /\ Has(jobsFile, j))
      => Get(jobsFile, j).state # "failed"

\* C6: every record of jobs.json has attempts <= max_retries, and a failed one
\* has attempts < max_retries.
C6_AttemptsBounded ==
  \A i \in 1..Len(jobsFile) :
    /\ jobsFile[i].attempts <= jobsFile[i].max_retries
    /\ jobsFile[i].state = "failed" => jobsFile[i].attempts < jobsFile[i].max_retries

\* The step in which the enqueue of process p puts its job in the table.
EnqueueAdds(p) ==
  At(p, "c_run") /\ cli[p].op = "enqueue" /\ th'[p].at = "save_jobs"

\* C10: the record an enqueue adds is in state pending, whatever the caller
\* supplied.
C10_EnqueuedPending ==
  [][\A p \in Clis :
       EnqueueAdds(p) => Get(jobs'[p], cli'[p].data.id).state = "pending"]_vars

\* C9: an enqueue whose command is empty or missing ends with a validation
\* error and writes nothing: no step of that process changes a file, and the
\* step that rejects the job leaves the tables of the process as they were.
Rejecting(p) == cli[p].op = "enqueue" /\ cli[p].data.command = ""

C9_InvalidEnqueueWritesNothing ==
  [][\A p \in Clis :
       (Rejecting(p) /\ th'[p] # th[p]) =>
         /\ jobsFile' = jobsFile /\ dlqFile' = dlqFile
         /\ th'[p].at \notin {"save_jobs", "save_dlq", "c_done"}
         /\ At(p, "c_run") =>
              /\ result'[p] = "ValidationError"
              /\ ~alive'[p]
              /\ jobs'[p] = jobs[p] /\ dlq'[p] = dlq[p]]_vars

\* C9 happens: an enqueue was rejected while the store held a job.
C9_Witness ==
  \E p \in Clis : result[p] = "ValidationError" /\ ~alive[p] /\ jobsFile # <<>>

\* C2: in a pool working alone, a job is in the dead letter table exactly
\* when it has failed max_retries times: the dead record has state dead,
\* attempts = max_retries and an error and is not in the jobs table; while
\* the job has failed fewer times it is in the jobs table, attempts counting
\* its failures.
C2_DeadAfterMaxRetries ==
  \A j \in enqueued :
    /\ Has(dlqFile, j) =>
         LET r == Get(dlqFile, j)
         IN /\ r.state = "dead" /\ r.error # "none"
            /\ r.attempts = r.max_retries /\ fails[j] = r.max_retries
            /\ ~Has(jobsFile, j)
    /\ (Has(jobsFile, j) /\ ~Held(j)) =>
         LET r == Get(jobsFile, j)
         IN fails[j] < r.max_retries /\ r.attempts = fails[j]
    /\ ~Held(j) => (Has(jobsFile, j) \/ Has(dlqFile, j))

\* C2 happens: a job with max_retries 2 is dead after its second failure.
C2_Witness ==
  \E j \in enqueued :
    /\ Has(dlqFile, j) /\ ~Held(j)
    /\ Get(dlqFile, j).max_retries = 2 /\ fails[j] = 2

\* C8: in a pool working alone, the command of an always-succeeding job is
\* spawned at most once, by one worker, and exactly once when the job is
\* completed.
C8_ExecutedOnce ==
  \A j \in enqueued :
    LET r == IF Has(jobsFile, j) THEN Get(jobsFile, j) ELSE Get(dlqFile, j)
    IN r.command = "ok" =>
         /\ execs[j] <= 1
         /\ Cardinality(Holders(j)) <= 1
         /\ r.state = "completed" => execs[j] = 1
         /\ r.state = "pending" => execs[j] = 0

\* C8 happens: two always-succeeding jobs are completed, both workers having
\* run one of them.
C8_Witness ==
  /\ Len(jobsFile) >= 2
  /\ \A i \in 1..Len(jobsFile) :
       /\ jobsFile[i].command = "ok" /\ jobsFile[i].state = "completed"
       /\ execs[jobsFile[i].id] = 1

\* getStats() of the store on disk.
Count(state) == Len(getJobsByState(jobsFile, state))

AllCompleted ==
  /\ Count("completed") = Cardinality(enqueued)
  /\ Count("pending") = 0 /\ Count("processing") = 0 /\ Count("failed") = 0
  /\ dlqFile = <<>>

\* C7: with always-succeeding jobs and a fairly scheduled pool, the store
\* eventually reaches, and then stays in, the state where every job is
\* completed and none is pending, processing, failed or dead.
C7_AllEventuallyCompleted == <>[]AllCompleted

\* C7 happens: MaxJobs jobs were enqueued and all of them are completed.
C7_Witness == Cardinality(enqueued) = MaxJobs /\ AllCompleted

\* No save() is between its two writes.
NoSaveInProgress == \A p \in Procs : ~At(p, "save_dlq")

\* C11: a mutation is on disk once the operation has returned, so a Storage
\* constructed afterwards loads it: a job whose enqueue has returned is
\* listed in the store on disk (stated for the moments when no save() is
\* between its two writes, where a moved record is in neither file).
C11_EnqueuedStaysListed ==
  NoSaveInProgress =>
    \A j \in enqueued : Has(jobsFile, j) \/ Has(dlqFile, j)

\* Process p is about to run `dlq retry` on the id it was given.
Retrying(p) == At(p, "c_run") /\ cli[p].op = "retry"

\* C12: retryFromDLQ(id) of an id that is in the dlq table removes the
\* record from it and puts it in the jobs table with state pending and
\* attempts 0, its id, command and max_retries kept; no other record of
\* either table changes.
C12_RetryMovesRecord ==
  [][\A p \in Clis :
       (Retrying(p) /\ Has(dlq[p], cli[p].data.id) /\ th'[p] # th[p]) =>
         LET id == cli[p].data.id
             old == Get(dlq[p], id)
             new == Get(jobs'[p], id)
         IN /\ ~Has(dlq'[p], id)
            /\ new.id = id /\ new.state = "pending" /\ new.attempts = 0
            /\ new.command = old.command /\ new.max_retries = old.max_retries
            /\ \A k \in JobIds \ {id} :
                 /\ Get(jobs'[p], k) = Get(jobs[p], k)
                 /\ Get(dlq'[p], k) = Get(dlq[p], k)]_vars

\* C12 happens: a retry has moved a dead job, which had used an attempt,
\* to the jobs table and is about to save.
C12_Witness ==
  \E p \in Clis :
    /\ cli[p].op = "retry" /\ At(p, "save_jobs")
    /\ Has(jobs[p], cli[p].data.id) /\ ~Has(dlq[p], cli[p].data.id)
    /\ Has(dlqFile, cli[p].data.id) /\ Get(dlqFile, cli[p].data.id).attempts > 0

\* C13: retryFromDLQ(id) of an id that is not in the dlq table (unknown, or
\* only in the jobs table) ends the command with a not-found error and
\* changes no table, in memory or on disk.
C13_RetryNotFound ==
  [][\A p \in Clis :
       (Retrying(p) /\ ~Has(dlq[p], cli[p].data.id) /\ th'[p] # th[p]) =>
         /\ result'[p] = "NotFoundError" /\ ~alive'[p]
         /\ jobs'[p] = jobs[p] /\ dlq'[p] = dlq[p]
         /\ jobsFile' = jobsFile /\ dlqFile' = dlqFile]_vars

\* C13 happens: a retry was refused while the jobs table held a job.
C13_Witness ==
  \E p \in Clis : result[p] = "NotFoundError" /\ ~alive[p] /\ jobsFile # <<>>

SuccessPath == <<"dead", "pending", "processing", "completed">>

\* C14: after retryFromDLQ(j), when the execution of j that follows has
\* succeeded, the persisted states of j have been exactly dead, pending,
\* processing, completed in that order; the record has attempts 0 from the
\* pending step on.
C14_RetryThenSuccess ==
  \A j \in JobIds :
    (trail[j] # <<>> /\ fails[j] = 0) =>
      /\ PState(j) = "completed" =>
           (trail[j] = SuccessPath /\ Get(jobsFile, j).attempts = 0)
      /\ (trail[j] = <<"dead", "pending">> /\ PState(j) = "pending") =>
           Get(jobsFile, j).attempts = 0

\* A `dlq retry` of job j is running.
RetryInProgress(j) ==
  \E p \in Clis : alive[p] /\ cli[p].op = "retry" /\ cli[p].data.id = j

\* C15: a job retried from the dead letter table has a fresh budget: once
\* the retry has returned, the job is back in the dead letter table, with
\* attempts = max_retries and absent from the jobs table, exactly when it has
\* failed max_retries more times; until then it is in the jobs table, its
\* attempts counting the failures since the retry.
C15_FreshBudget ==
  \A j \in JobIds :
    (trail[j] # <<>> /\ ~RetryInProgress(j) /\ ~Held(j) /\ NoSaveInProgress) =>
      /\ Has(jobsFile, j) \/ Has(dlqFile, j)
      /\ Has(dlqFile, j) =>
           LET r == Get(dlqFile, j)
           IN /\ r.attempts = r.max_retries /\ fails[j] = r.max_retries
              /\ ~Has(jobsFile, j)
      /\ Has(jobsFile, j) =>
           LET r == Get(jobsFile, j)
           IN r.attempts = fails[j] /\ fails[j] < r.max_retries

\* C16: a record of the dead letter table keeps its place, state and
\* attempts in every step taken while no `dlq retry` of its id is running
\* (stated for ids enqueued once).
C16_DeadFrozen ==
  [][\A j \in JobIds :
       (Has(dlqFile, j) /\ enqs'[j] <= 1 /\ ~RetryInProgress(j) /\ ~RetryInProgress(j)') =>
         /\ Has(dlqFile', j)
         /\ Get(dlqFile', j).state = Get(dlqFile, j).state
         /\ Get(dlqFile', j).attempts = Get(dlqFile, j).attempts]_vars

\* C17: the next_retry_at recorded by the k-th failure of a job is the time
\* of the failure plus BackoffBase^(k-1) seconds: 1, 2, 4 seconds after the
\* first, second and third failure.
C17_BackoffFromFirstFailure ==
  \A i \in 1..Len(jobsFile) :
    LET r == jobsFile[i]
    IN (r.state = "failed" /\ r.attempts >= 1) =>
         r.next_retry_at = r.updated_at + Pow(BackoffBase, r.attempts - 1)

\* base^n as the number of functions from 1..n to 1..base.
Exp(base, n) == Cardinality([1..n -> 1..base])

\* C18: calculateNextRetry(base) returns a time base^attempts seconds after
\* the call (1, 2 and 4 seconds for base 2 and attempts 0, 1, 2) and leaves
\* the record as it was.
C18_DelayIsPower ==
  calc.done /\ calc.arg # NoJob =>
    LET delay == calc.out - calc.t
    IN /\ delay = Exp(calc.base, calc.arg.attempts)
       /\ (calc.base = 2 /\ calc.arg.attempts <= 2) =>
            delay = <<1, 2, 4>>[calc.arg.attempts + 1]
       /\ calc.job = calc.arg

\* C18 happens: the call with base 2 and attempts 2 returned 4 seconds.
C18_Witness ==
  /\ calc.done /\ calc.base = 2 /\ calc.arg.attempts = 2
  /\ calc.out - calc.t = 4

\* C19: a stop of the pool lets the worker finish the job it is executing:
\* once the pool process has exited, no job is left in state processing,
\* however long the command ran.
C19_StopLeavesNoProcessing ==
  \A p \in Pools :
    ~alive[p] => getJobsByState(jobsFile, "processing") = <<>>

\* C20: at most one pool is active over the data directory, whatever the
\* interleaving of the processes that call start.
ActivePools == {q \in Managers : mgr[q].at \in {"running", "stopping"}}

C20_SinglePool == Cardinality(ActivePools) <= 1

\* Process p writes jobs.json or dlq.json in this step.
Writes(p) == th[p].at \in {"save_jobs", "save_dlq"} /\ th'[p] # th[p] /\ alive'[p]

\* C21: every write of a table to disk is made by a process that holds the
\* lock (its lockHandle is set and the marker names it).
C21_WritesUnderLock ==
  [][\A p \in Procs : Writes(p) => (lockHandle[p] /\ lockFile = p)]_vars

\* Process p is inside getNextPendingJob.
Dequeuing(p) ==
  \/ th[p].at \in {"g_select", "g_acquire", "g_unlink", "g_lockwrite", "g_check",
                   "g_release", "g_null"}
  \/ th[p].at \in {"load_jobs", "load_dlq"} /\ th[p].ret \in {"g_select", "g_check"}
  \/ th[p].at \in {"save_jobs", "save_dlq"} /\ th[p].ret = "g_release"

\* getNextPendingJob of p returns in this step (with a job or with null).
Returns(p) == th[p].at \in {"g_release", "g_null"} /\ th'[p] # th[p] /\ alive'[p]

\* C22: getNextPendingJob makes a bounded number of acquireLock calls, and a
\* call in which every one of them failed ends at `return null` having
\* written neither table.
C22_BoundedSoftLock ==
  /\ [](\A p \in Procs : acqs[p] <= AcquireBound)
  /\ [][\A p \in Procs :
          /\ (Dequeuing(p) /\ Writes(p)) => lockHandle[p]
          /\ (AcquireCalled(p) /\ th'[p].at = "g_null") =>
               UNCHANGED <<jobsFile, dlqFile, lockFile, lockHandle>>]_vars

\* C22 happens: a call has used up all its attempts on one pending job while
\* the other, live, process held the lock.
C22_Witness ==
  \E p \in Managers :
    /\ At(p, "g_null") /\ ~lockHandle[p]
    /\ acqs[p] = DequeueMaxRetries * LockMaxRetries
    /\ lockFile \in Managers \ {p} /\ alive[lockFile]

\* C23: the job getNextPendingJob marks processing is the first of the
\* pending jobs of the table it has just re-loaded under the lock, in
\* created_at order (ties in table order).
C23_FifoAtDecision ==
  [][\A p \in Procs :
       (At(p, "g_check") /\ th'[p].at = "save_jobs") =>
         Head(th[p].cands) = Head(PendingJobs(jobs[p]))]_vars

\* C26: at most one process has lockHandle set.
C26_LockExclusive == Cardinality({p \in Procs : lockHandle[p]}) <= 1

\* C27: when getNextPendingJob returns, the process does not hold the lock
\* and the marker does not name it.
C27_ReleasedOnReturn ==
  [][\A p \in Procs : Returns(p) => (~lockHandle'[p] /\ lockFile' # p)]_vars

\* C28: acquireLock does not fail on a marker whose holder is dead (it goes
\* on to unlink it), and the marker of a live holder is removed by no other
\* process.
C28_StaleLockRecovery ==
  [][/\ \A p \in Procs :
          (AcquireCalled(p) /\ ~lockHandle[p] /\ lockFile # NoLock /\ ~alive[lockFile])
            => th'[p].at = "g_unlink"
     /\ \A q \in Procs :
          (lockFile = q /\ alive[q] /\ lockFile' = NoLock) => th'[q] # th[q]]_vars

\* C29: getNextPendingJob returns a job only after it found it pending in
\* the table re-loaded with lockHandle set and wrote it as processing; with
\* no pending job in the table it loaded first it returns null without a
\* call of acquireLock.
C29_DequeueOne ==
  [][\A p \in Procs :
       /\ (At(p, "g_check") /\ th'[p].at = "save_jobs") =>
            /\ lockHandle[p]
            /\ Get(jobs[p], Head(th[p].cands)).state = "pending"
       /\ (Writes(p) /\ At(p, "save_jobs") /\ th[p].ret = "g_release") =>
            Get(jobsFile', Head(th[p].cands)).state = "processing"
       /\ (Returns(p) /\ At(p, "g_release")) =>
            /\ wjob[p][th[p].w] = NoJob
            /\ wjob'[p][th[p].w].id = Head(th[p].cands)
            /\ wjob'[p][th[p].w].state = "processing"
       /\ (At(p, "g_select") /\ getJobsByState(jobs[p], "pending") = <<>>
             /\ th'[p] # th[p] /\ alive'[p]) =>
            /\ th'[p].at = "g_null"
            /\ th[p].attempt = 0 => acqs[p] = 0
            /\ UNCHANGED <<lockFile, lockHandle>>]_vars

\* C29 happens: a call has returned a job, and a call has found nothing
\* pending.
C29_Witness ==
  \E p \in Managers, q \in Managers :
    /\ wst[p][1] = "exec" /\ wjob[p][1].state = "processing"
    /\ Get(jobsFile, wjob[p][1].id).state = "processing"
    /\ At(q, "g_null") /\ acqs[q] = 0 /\ getJobsByState(jobs[q], "pending") = <<>>

\* The command of worker w of p has failed in this step and the job will be
\* retried: executeJob calls storage.updateJob with the failed record.
FailsRetryable(p, w) ==
  /\ wst[p][w] = "exec" /\ At(p, "idle")
  /\ th'[p].at = "load_jobs" /\ th'[p].w = w /\ th'[p].kind = "outcome"
  /\ th'[p].upd.state = "failed"

\* updateJob of a failed record returns in this step.
FailReported(p) ==
  At(p, "u_done") /\ th[p].kind = "outcome" /\ th[p].upd.state = "failed"
  /\ th'[p] # th[p] /\ alive'[p]

SomeFailure == \E k \in JobIds : fails[k] > 0

\* Worker w of p is executing job j.
Executing(p, w, j) == wst[p][w] = "exec" /\ wjob[p][w].id = j

\* C24: a failed execution does not stop the worker: a job that is pending
\* in jobs.json after some execution has failed is eventually executed by
\* the (one) worker of the pool.
C24_WorkerSurvivesFailure ==
  \A j \in JobIds :
    (SomeFailure /\ PState(j) = "pending") ~>
      (\E p \in Pools : Executing(p, DefaultCount, j))

\* C24 happens: after a failed execution the worker is executing a job.
C24_Witness ==
  \E j \in JobIds, p \in Pools :
    /\ SomeFailure /\ Executing(p, DefaultCount, j)
    /\ \E k \in JobIds \ {j} : fails[k] > 0

\* The command of process p ends in this step.
Ends(p) == alive[p] /\ ~alive'[p]

\* C25: an operation in which a load of the tables has failed writes no
\* table afterwards and does not end as a success.
C25_IoFailureIsFatal ==
  [][\A p \in Procs :
       /\ Writes(p) => ~th[p].err
       /\ (Ends(p) /\ th[p].err) => result'[p] # "ok"]_vars

\* updateJob of a promoted record puts it in the table it has just loaded.
Promotes(p) ==
  At(p, "u_apply") /\ th[p].kind = "promote" /\ th'[p].at = "save_jobs" /\ alive'[p]

\* Worker w of p starts executing a job in this step.
Starts(p, w) == wst[p][w] # "exec" /\ wst'[p][w] = "exec"

Due(r, t) == r.next_retry_at = NoTime \/ t >= r.next_retry_at

\* C31: in a pool working alone, a promotion is decided only in a cycle whose getNextPendingJob
\* returned null; the record it replaces is failed with attempts <
\* max_retries and due; a record goes from failed to pending on disk only by
\* the write of a promotion; and no execution starts before the
\* next_retry_at of its job.
C31_PromotionGuarded ==
  [][/\ \A p \in Managers :
          /\ (th[p].kind # "promote" /\ th'[p].kind = "promote") =>
               At(p, "g_null") /\ th[p].phase = 1
          /\ Promotes(p) =>
               LET old == Get(jobs[p], th[p].upd.id)
               IN /\ old.state = "failed" /\ old.attempts < old.max_retries
                  /\ Due(old, now)
                  /\ [Get(jobs'[p], old.id) EXCEPT !.updated_at = 0]
                       = [old EXCEPT !.state = "pending", !.updated_at = 0]
                  /\ Get(jobs'[p], old.id).updated_at <= now
          /\ \A w \in Workers : Starts(p, w) => Due(wjob'[p][w], now)
     /\ \A j \in JobIds :
          (PState(j) = "failed" /\ PState(j)' = "pending") =>
            \E p \in Managers : Writes(p) /\ th[p].kind = "promote" /\ th[p].upd.id = j
    ]_vars

\* C31 happens: a job that failed once is being executed again, at or after
\* its next_retry_at.
C31_Witness ==
  \E p \in Pools, w \in Workers :
    /\ wst[p][w] = "exec" /\ wjob[p][w].attempts = 1 /\ fails[wjob[p][w].id] = 1
    /\ wjob[p][w].next_retry_at # NoTime /\ now >= wjob[p][w].next_retry_at

\* The failed records of table t that canRetry and shouldRetryNow let through.
RetryableDue(t, now0) ==
  {t[i] : i \in {k \in 1..Len(t) : canRetry(t[k]) /\ shouldRetryNow(t[k], now0)}}

\* C32: the failed job a cycle chooses to promote has the oldest updated_at
\* of the failed jobs that are retryable and due, and once the promotion is
\* written the same cycle calls getNextPendingJob again without sleeping.
C32_OldestPromotedFirst ==
  [][\A p \in Managers :
       /\ (At(p, "g_null") /\ th'[p].kind = "promote") =>
            \A r \in RetryableDue(jobs[p], now) :
              Get(jobs[p], th'[p].upd.id).updated_at <= r.updated_at
       /\ (At(p, "u_done") /\ th[p].kind = "promote" /\ th'[p] # th[p] /\ alive'[p]) =>
            /\ th'[p] = StartDequeue(th[p].w, 2)
            /\ wst'[p] = wst[p]]_vars

\* The command of worker w of p has exited with code 0 in this step:
\* executeJob calls storage.updateJob with the completed record.
Succeeds(p, w) ==
  /\ wst[p][w] = "exec" /\ At(p, "idle")
  /\ th'[p].at = "load_jobs" /\ th'[p].w = w /\ th'[p].kind = "outcome"
  /\ th'[p].upd.state = "completed"

\* updateJob of a completed record returns in this step.
SuccessReported(p) ==
  At(p, "u_done") /\ th[p].kind = "outcome" /\ th[p].upd.state = "completed"
  /\ th'[p] # th[p] /\ alive'[p]

\* C33: in a pool working alone, a command that exits with code 0 takes the
\* job from processing to completed with error null and attempts as they
\* were; when updateJob returns the record is in jobs.json and not in
\* dlq.json; a job whose command always succeeds never has attempts above 0
\* and is never failed or dead.
C33_SuccessCompletes ==
  /\ [][\A p \in Managers :
          /\ \A w \in Workers :
               Succeeds(p, w) =>
                 LET r == th'[p].upd
                 IN /\ Get(jobsFile, r.id).state = "processing"
                    /\ r.state = "completed" /\ r.error = "none"
                    /\ r.attempts = Get(jobsFile, r.id).attempts
                    /\ r.attempts = wjob[p][w].attempts
                    /\ r.updated_at = now
          /\ SuccessReported(p) =>
               /\ Get(jobsFile, th[p].upd.id) = th[p].upd
               /\ ~Has(dlqFile, th[p].upd.id)]_vars
  /\ [](\A j \in enqueued :
          LET r == IF Has(jobsFile, j) THEN Get(jobsFile, j) ELSE Get(dlqFile, j)
          IN r.command = "ok" =>
               /\ r.attempts = 0 /\ r.state \notin {"failed", "dead"}
               /\ ~Has(dlqFile, j))

\* C33 happens: a job that had failed once is completed, with attempts 1 and
\* no error.
C33_Witness ==
  \E i \in 1..Len(jobsFile) :
    /\ jobsFile[i].state = "completed" /\ jobsFile[i].attempts = 1
    /\ jobsFile[i].error = "none" /\ fails[jobsFile[i].id] = 1

C35_AttemptsCountFailures ==
  \A j \in JobIds :
    /\ Cardinality(Holders(j)) <= 1
    /\ (Has(jobsFile, j) /\ ~Held(j) /\ ~RetryInProgress(j)) =>
         Get(jobsFile, j).attempts = fails[j]

\* Job j is completed or dead on disk.
Final(j) == PState(j) \in {"completed", "dead"}

\* Job j is failed and its next_retry_at lies within, or beyond, the horizon.
Waiting(j) ==
  PState(j) = "failed" /\ Get(jobsFile, j).next_retry_at <= MaxTime
BeyondHorizon(j) ==
  PState(j) = "failed" /\ Get(jobsFile, j).next_retry_at > MaxTime

\* C36: with the (one) worker of the pool fairly scheduled and the clock
\* advancing up to the horizon, a failed job whose next_retry_at is within
\* the horizon is executed again, a job whose command always fails ends
\* dead, and every enqueued job ends, for good, completed or dead; the only
\* jobs that stay failed are those whose next_retry_at is beyond the horizon.
C36_RetriesLive ==
  \A j \in JobIds :
    /\ Waiting(j) ~> (\E p \in Pools : Executing(p, DefaultCount, j))
    /\ (Has(jobsFile, j) /\ Get(jobsFile, j).command = "fail") ~>
         (PState(j) = "dead" \/ BeyondHorizon(j))
    /\ (j \in enqueued) => <>[](Final(j) \/ BeyondHorizon(j))

\* C36 happens: an always-failing job with max_retries 2 is dead after a
\* second failure that came at or after the first backoff.
C36_Witness ==
  \E i \in 1..Len(dlqFile) :
    /\ dlqFile[i].command = "fail" /\ dlqFile[i].max_retries = 2
    /\ dlqFile[i].state = "dead" /\ fails[dlqFile[i].id] = 2
    /\ dlqFile[i].updated_at >= dlqFile[i].next_retry_at
    /\ dlqFile[i].next_retry_at # NoTime

\* No store operation is under way in any process.
Quiescent == \A p \in Procs : At(p, "idle")

\* C37: a job whose enqueue has returned is never lost: whenever no store
\* operation is under way, it is in jobs.json or in dlq.json.
C37_NoJobLost ==
  Quiescent => \A j \in enqueued : Has(jobsFile, j) \/ Has(dlqFile, j)

\* releaseLock of p returns in this step.
Released(p) == At(p, "g_release") /\ th'[p] # th[p] /\ alive'[p]

\* C38: a process has lockHandle set only while the marker exists and holds
\* its pid, and lockHandle is clear when releaseLock has returned.
C38_HandleMatchesMarker ==
  /\ [](\A p \in Procs : lockHandle[p] => lockFile = p)
  /\ [][\A p \in Procs : Released(p) => ~lockHandle'[p]]_vars

\* C39: addJob of an id that the tables of the process already hold leaves
\* the existing record as it was (state, attempts, command), and an id of
\* the dlq table is not put in the jobs table as well.
C39_EnqueueKeepsExisting ==
  [][\A p \in Clis :
       EnqueueAdds(p) =>
         LET id == cli'[p].data.id
             old == Get(jobs[p], id)
             new == Get(jobs'[p], id)
         IN /\ Has(jobs[p], id) =>
                 /\ new.state = old.state /\ new.attempts = old.attempts
                 /\ new.command = old.command
            /\ Has(dlq[p], id) => ~Has(jobs'[p], id)]_vars

\* The record of job j on disk.
Record(j) == IF Has(jobsFile, j) THEN Get(jobsFile, j) ELSE Get(dlqFile, j)

\* C40: an execution adds at most one to attempts even when the write of its
\* outcome fails: the attempts of a record never exceed the number of times
\* its command was run, and a job whose command always succeeds is never
\* recorded as failed or dead.
C40_OneAttemptPerExecution ==
  \A j \in enqueued :
    /\ Record(j).attempts <= execs[j]
    /\ Record(j).command = "ok" => Record(j).state \notin {"failed", "dead"}

====
